---- MODULE Spec2Model ----
(***************************************************************************)
(* Governance proposal engine: weighted voting, threshold/quorum           *)
(* arithmetic and status resolution (contracts/governance/src/state.rs).   *)
(***************************************************************************)
EXTENDS Integers, Sequences, FiniteSets, TLC

(***************************************************************************)
(* Unsigned multi-precision arithmetic.  Uint128 and Decimal values do not *)
(* fit the model checker's machine integers, so they are kept as           *)
(* little-endian sequences of base-1000 limbs without leading zero limbs   *)
(* (zero is << >>).  Every operation below is exact.                       *)
(***************************************************************************)
Base == 10 * 10 * 10

RECURSIVE Limbs(_)
Limbs(n) == IF n = 0 THEN << >> ELSE << n % Base >> \o Limbs(n \div Base)

RECURSIVE BigToInt(_)
BigToInt(a) == IF a = << >> THEN 0 ELSE a[1] + Base * BigToInt(Tail(a))

RECURSIVE Trim(_)
Trim(a) ==
    IF a = << >> THEN a
    ELSE IF a[Len(a)] = 0 THEN Trim(SubSeq(a, 1, Len(a) - 1)) ELSE a

Limb(a, i) == IF i >= 1 /\ i <= Len(a) THEN a[i] ELSE 0

RECURSIVE Carry(_, _)
\* propagate carries through a sequence of non-negative coefficients
Carry(c, carry) ==
    IF c = << >> THEN Limbs(carry)
    ELSE LET s == c[1] + carry
         IN  << s % Base >> \o Carry(Tail(c), s \div Base)

BigAdd(a, b) ==
    LET n == IF Len(a) >= Len(b) THEN Len(a) ELSE Len(b)
    IN  Trim(Carry([i \in 1..n |-> Limb(a, i) + Limb(b, i)], 0))

RECURSIVE Conv(_, _, _, _)
\* coefficient k of the product: the sum of a[i] * b[k + 1 - i] for i >= from
Conv(a, b, k, from) ==
    IF from > Len(a) \/ from > k THEN 0
    ELSE a[from] * Limb(b, k + 1 - from) + Conv(a, b, k, from + 1)

BigMul(a, b) ==
    IF a = << >> \/ b = << >> THEN << >>
    ELSE Trim(Carry([k \in 1..(Len(a) + Len(b) - 1) |-> Conv(a, b, k, 1)], 0))

\* floor(a / Base^k)
BigShiftDown(a, k) == IF Len(a) <= k THEN << >> ELSE SubSeq(a, k + 1, Len(a))

RECURSIVE BigLessFrom(_, _, _)
BigLessFrom(a, b, i) ==
    IF i = 0 THEN FALSE
    ELSE IF a[i] # b[i] THEN a[i] < b[i]
    ELSE BigLessFrom(a, b, i - 1)

\* a < b
BigLess(a, b) ==
    IF Len(a) # Len(b) THEN Len(a) < Len(b) ELSE BigLessFrom(a, b, Len(a))

BigLeq(a, b) == ~BigLess(b, a)

RECURSIVE Borrow(_, _, _)
\* a - b for a >= b, limb by limb with a borrow
Borrow(a, b, borrow) ==
    IF a = << >> THEN << >>
    ELSE LET d == a[1] - (IF b = << >> THEN 0 ELSE b[1]) - borrow
         IN  << IF d < 0 THEN d + Base ELSE d >>
             \o Borrow(Tail(a), IF b = << >> THEN b ELSE Tail(b),
                       IF d < 0 THEN 1 ELSE 0)

BigSub(a, b) == Trim(Borrow(a, b, 0))

(***************************************************************************)
(* cosmwasm_std::Decimal: an unsigned fixed-point number with 18           *)
(* fractional digits, held as its atomics (value * 10^18) in limbs.        *)
(***************************************************************************)
\* 10^18 = Base^6
DecimalFractionalLimbs == 6

DecimalAtomics(n) == Limbs(n)

Decimal_zero == << >>

\* Decimal::percent(x): atomics x * 10^16
Decimal_percent(x) == Trim(<< 0, 0, 0, 0, 0 >> \o Limbs(x * 10))

Decimal_one == Decimal_percent(100)

\* Decimal::from_ratio(1, 3) and Decimal::from_ratio(2, 3), rounded down
Decimal_third == << 333, 333, 333, 333, 333, 333 >>
Decimal_two_thirds == << 666, 666, 666, 666, 666, 666 >>

\* the smallest positive Decimal, 10^-18
Decimal_epsilon == DecimalAtomics(1)

\* Decimal * Uint128 = floor(u * atomics / 10^18), on the full product
Decimal_mul_uint(d, u) == BigShiftDown(BigMul(u, d), DecimalFractionalLimbs)

PRECISION_FACTOR == 1000000000

\* PRECISION_FACTOR = Base^3
PrecisionLimbs == 3

(***************************************************************************)
(* The fractions proposals are created with.  The two Decimal computations *)
(* status resolution performs on them, 1 - fraction and votes_needed, are  *)
(* evaluated once for each of them (and for each weight up to              *)
(* MaxTotalWeight) and kept in ComplementTable and VotesNeededTable.       *)
(***************************************************************************)
PercentageChoices ==
    {Decimal_third, Decimal_percent(50),
     BigAdd(Decimal_percent(50), Decimal_epsilon), Decimal_one}
ThresholdChoices ==
    {Decimal_percent(49), Decimal_percent(50),
     BigAdd(Decimal_percent(50), Decimal_epsilon), Decimal_two_thirds,
     Decimal_one, Decimal_percent(110)}
QuorumChoices ==
    {Decimal_zero, Decimal_third, Decimal_one, Decimal_percent(200)}

CreationFractions ==
    {f \in PercentageChoices \cup ThresholdChoices \cup QuorumChoices :
        BigLeq(f, Decimal_one)}

ComplementTable == [f \in CreationFractions |-> BigSub(Decimal_one, f)]

\* Decimal - Decimal, for a >= b
Decimal_sub(a, b) ==
    IF a = Decimal_one /\ b \in CreationFractions
    THEN ComplementTable[b]
    ELSE BigSub(a, b)

TabledFractions ==
    CreationFractions \cup {ComplementTable[f] : f \in CreationFractions}

(***************************************************************************)
(* Bounds of the model.                                                    *)
(***************************************************************************)
\* largest total_weight of a proposal
MaxTotalWeight == 3
\* last block height the host reaches
MaxHeight == 2
\* largest weight the votes_needed harness (SpecMath) tries
MaxMathWeight == 15
\* largest app id a caller or an action payload names
MaxAppId == 2
\* number of queries the external validator answers
MaxQueries == 2
\* number of proposals created in the store
MaxProposals == 6

\* votes_needed_u128 applying the opposing fraction 1 - percentage
votes_needed_complement(weight, percentage) ==
    LET applied == Decimal_mul_uint(Decimal_sub(Decimal_one, percentage),
                       BigMul(Limbs(PRECISION_FACTOR), Limbs(weight)))
    IN  BigToInt(BigShiftDown(BigAdd(applied, Limbs(PRECISION_FACTOR - 1)),
                              PrecisionLimbs))

\* the arithmetic of votes_needed
votes_needed_u128(weight, percentage) ==
    LET applied == Decimal_mul_uint(percentage,
                       BigMul(Limbs(PRECISION_FACTOR), Limbs(weight)))
    IN  BigToInt(BigShiftDown(BigAdd(applied, Limbs(PRECISION_FACTOR - 1)),
                              PrecisionLimbs))

VotesNeededTable ==
    [w \in 0..MaxTotalWeight |->
        [f \in TabledFractions |-> votes_needed_u128(w, f)]]

votes_needed(weight, percentage) ==
    IF weight <= MaxTotalWeight /\ percentage \in TabledFractions
    THEN VotesNeededTable[weight][percentage]
    ELSE votes_needed_u128(weight, percentage)

(***************************************************************************)
(* Votes: weight of votes for each option.                                 *)
(***************************************************************************)
VoteOptions == {"Yes", "No", "Abstain", "Veto"}

Votes_new == [yes |-> 0, no |-> 0, abstain |-> 0, veto |-> 0]

total(v) == v.yes + v.no + v.abstain + v.veto

\* add_vote with the Yes arm assigning instead of accumulating
add_vote_assign(v, vote, weight) ==
    CASE vote = "Yes"     -> [v EXCEPT !.yes = weight]
      [] vote = "Abstain" -> [v EXCEPT !.abstain = @ + weight]
      [] vote = "No"      -> [v EXCEPT !.no = @ + weight]
      [] vote = "Veto"    -> [v EXCEPT !.veto = @ + weight]

\* add_vote with the Veto arm adding to the no bucket
add_vote_veto_as_no(v, vote, weight) ==
    CASE vote = "Yes"     -> [v EXCEPT !.yes = @ + weight]
      [] vote = "Abstain" -> [v EXCEPT !.abstain = @ + weight]
      [] vote = "No"      -> [v EXCEPT !.no = @ + weight]
      [] vote = "Veto"    -> [v EXCEPT !.no = @ + weight]

add_vote(v, vote, weight) ==
    CASE vote = "Yes"     -> [v EXCEPT !.yes = @ + weight]
      [] vote = "Abstain" -> [v EXCEPT !.abstain = @ + weight]
      [] vote = "No"      -> [v EXCEPT !.no = @ + weight]
      [] vote = "Veto"    -> [v EXCEPT !.veto = @ + weight]

(***************************************************************************)
(* cw_utils::Expiration evaluated against a BlockInfo.                     *)
(***************************************************************************)
AtHeight(h) == [kind |-> "AtHeight", at |-> h]
AtTime(t) == [kind |-> "AtTime", at |-> t]
Never == [kind |-> "Never", at |-> 0]

is_expired(expires, blk) ==
    CASE expires.kind = "AtHeight" -> blk.height >= expires.at
      [] expires.kind = "AtTime"   -> blk.time >= expires.at
      [] expires.kind = "Never"    -> FALSE

(***************************************************************************)
(* cw_utils::Threshold, as a record with the fields of all three variants  *)
(* (the fields a variant does not have are zero).                          *)
(***************************************************************************)
AbsoluteCount(weight) ==
    [kind |-> "AbsoluteCount", weight |-> weight,
     percentage |-> Decimal_zero, threshold |-> Decimal_zero, quorum |-> Decimal_zero]

AbsolutePercentage(percentage) ==
    [kind |-> "AbsolutePercentage", weight |-> 0,
     percentage |-> percentage, threshold |-> Decimal_zero, quorum |-> Decimal_zero]

ThresholdQuorum(threshold, quorum) ==
    [kind |-> "ThresholdQuorum", weight |-> 0,
     percentage |-> Decimal_zero, threshold |-> threshold, quorum |-> quorum]

\* validate_threshold looking at the quorum before the threshold
validate_threshold_quorum_first(threshold, quorum) ==
    IF quorum = Decimal_zero THEN "ZeroQuorumThreshold"
    ELSE IF BigLess(Decimal_one, quorum) THEN "UnreachableQuorumThreshold"
    ELSE IF BigLess(Decimal_percent(100), threshold) \/ BigLess(threshold, Decimal_percent(50))
    THEN "InvalidThreshold"
    ELSE "Ok"

validate_threshold(threshold, quorum) ==
    IF BigLess(Decimal_percent(100), threshold) \/ BigLess(threshold, Decimal_percent(50))
    THEN "InvalidThreshold"
    ELSE IF quorum = Decimal_zero THEN "ZeroQuorumThreshold"
    ELSE IF BigLess(Decimal_one, quorum) THEN "UnreachableQuorumThreshold"
    ELSE "Ok"

(***************************************************************************)
(* The validation functions of governance actions.  Each takes the         *)
(* response the external validator (deps.querier) gives to a query, and    *)
(* returns what it returns together with the queries it sent.              *)
(***************************************************************************)
\* ContractError values and Ok(()), as records
Result(kind, err) == [kind |-> kind, err |-> err]
Ok == Result("Ok", "")
DifferentAppID == Result("DifferentAppID", "")
ProposalError(err) == Result("ProposalError", err)
StdError == Result("Std", "")

\* MessageValidateResponse
MessageValidateResponse(found, err) ==
    [failed |-> FALSE, found |-> found, err |-> err]

\* the querier fails with a StdError instead of answering
QueryFailed == [failed |-> TRUE, found |-> FALSE, err |-> ""]

\* a call that returned before sending a query
Returned(ret) == [ret |-> ret, sent |-> << >>]

\* query_validate repeating the query once when the answer is found = false
query_validate_retry(query, response) ==
    [sent |-> IF ~response.failed /\ ~response.found
              THEN << query, query >> ELSE << query >>,
     ret  |-> IF response.failed THEN StdError
              ELSE IF response.found THEN Ok
              ELSE ProposalError(response.err)]

\* deps.querier.query(..)? followed by the test of query_result.found
query_validate(query, response) ==
    [sent |-> << query >>,
     ret  |-> IF response.failed THEN StdError
              ELSE IF response.found THEN Ok
              ELSE ProposalError(response.err)]

\* update_pairvault_stability sending its query before comparing the app ids
update_pairvault_stability_query_first(app_mapping_id_param, ext_pair_id_param, app_id, response) ==
    LET query ==
            [tag |-> "UpdatePairsVaultQuery",
             app_id |-> app_mapping_id_param,
             ext_pair_id |-> ext_pair_id_param]
        queried == query_validate(query, response)
    IN  IF app_mapping_id_param # app_id
        THEN [ret |-> DifferentAppID, sent |-> queried.sent]
        ELSE queried

update_pairvault_stability(app_mapping_id_param, ext_pair_id_param, app_id, response) ==
    IF app_mapping_id_param # app_id
    THEN Returned(DifferentAppID)
    ELSE LET query ==
             [tag |-> "UpdatePairsVaultQuery",
              app_id |-> app_mapping_id_param,
              ext_pair_id |-> ext_pair_id_param]
         IN  query_validate(query, response)

update_locker_lsr(app_mapping_id_param, asset_id_param, app_id, response) ==
    IF app_mapping_id_param # app_id
    THEN Returned(DifferentAppID)
    ELSE LET query ==
             [tag |-> "UpdateCollectorLookupTableQuery",
              app_id |-> app_mapping_id_param,
              asset_id |-> asset_id_param]
         IN  query_validate(query, response)

remove_whitelist_asset_locker(app_mapping_id_param, asset_id_param, app_id, response) ==
    IF app_mapping_id_param # app_id
    THEN Returned(DifferentAppID)
    ELSE LET query ==
             [tag |-> "RemoveWhitelistAssetLockerQuery",
              app_id |-> app_mapping_id_param,
              asset_id |-> asset_id_param]
         IN  query_validate(query, response)

remove_whitelist_app_id_vault_interest(app_mapping_id_param, app_id, response) ==
    IF app_mapping_id_param # app_id
    THEN Returned(DifferentAppID)
    ELSE LET query ==
             [tag |-> "RemoveWhitelistAppIdVaultInterestQuery",
              app_id |-> app_mapping_id_param]
         IN  query_validate(query, response)

whitelist_app_id_liquidation(app_mapping_id_param, app_id, response) ==
    IF app_mapping_id_param # app_id
    THEN Returned(DifferentAppID)
    ELSE LET query ==
             [tag |-> "WhitelistAppIdLiquidationQuery",
              app_id |-> app_mapping_id_param]
         IN  query_validate(query, response)

remove_whitelist_app_id_liquidation(app_mapping_id_param, app_id, response) ==
    IF app_mapping_id_param # app_id
    THEN Returned(DifferentAppID)
    ELSE LET query ==
             [tag |-> "RemoveWhitelistAppIdLiquidationQuery",
              app_id |-> app_mapping_id_param]
         IN  query_validate(query, response)

whitelist_asset_locker_rewards(app_mapping_id_param, asset_id_param, app_id, response) ==
    IF app_mapping_id_param # app_id
    THEN Returned(DifferentAppID)
    ELSE LET query ==
             [tag |-> "WhitelistAppIdLockerRewards",
              app_id |-> app_mapping_id_param,
              asset_id |-> asset_id_param]
         IN  query_validate(query, response)

whitelist_asset_locker_eligible(app_mapping_id_param, asset_id_param, app_id, response) ==
    IF app_mapping_id_param # app_id
    THEN Returned(DifferentAppID)
    ELSE LET query ==
             [tag |-> "WhiteListedAssetQuery",
              app_id |-> app_mapping_id_param,
              asset_id |-> asset_id_param]
         IN  query_validate(query, response)

collector_lookup_table(app_mapping_id_param, collector_asset_id_param, secondary_asset_id_param, app_id, response) ==
    IF app_mapping_id_param # app_id
    THEN Returned(DifferentAppID)
    ELSE LET query ==
             [tag |-> "CollectorLookupTableQuery",
              app_id |-> app_mapping_id_param,
              collector_asset_id |-> collector_asset_id_param,
              secondary_asset_id |-> secondary_asset_id_param]
         IN  query_validate(query, response)

auction_mapping_for_app(app_mapping_id_param, app_id, response) ==
    IF app_mapping_id_param # app_id
    THEN Returned(DifferentAppID)
    ELSE LET query ==
             [tag |-> "AuctionMappingForAppQuery",
              app_id |-> app_mapping_id_param]
         IN  query_validate(query, response)

\* msg::ExtendedPair; the model draws its app id and pair id and fixes the rest
ExtendedPair(app_mapping_id_param, pair_id_param) ==
    [app_mapping_id_param |-> app_mapping_id_param,
     pair_id_param |-> pair_id_param,
     stability_fee_param |-> 0,
     closing_fee_param |-> 0,
     draw_down_fee_param |-> 0,
     debt_ceiling_param |-> 0,
     debt_floor_param |-> 0,
     pair_name_param |-> "pair"]

add_extended_pair_vault(app_id, extended_pair, response) ==
    IF extended_pair.app_mapping_id_param # app_id
    THEN Returned(DifferentAppID)
    ELSE LET query ==
             [tag |-> "ExtendedPairsVaultRecordsQuery",
              app_id |-> extended_pair.app_mapping_id_param,
              pair_id |-> extended_pair.pair_id_param,
              stability_fee |-> extended_pair.stability_fee_param,
              closing_fee |-> extended_pair.closing_fee_param,
              draw_down_fee |-> extended_pair.draw_down_fee_param,
              debt_ceiling |-> extended_pair.debt_ceiling_param,
              debt_floor |-> extended_pair.debt_floor_param,
              pair_name |-> extended_pair.pair_name_param]
         IN  query_validate(query, response)

whitelist_app_id_vault_interest(app_mapping_id_param, app_id, response) ==
    IF app_mapping_id_param # app_id
    THEN Returned(DifferentAppID)
    ELSE LET query ==
             [tag |-> "WhitelistAppIdVaultInterest",
              app_id |-> app_mapping_id_param]
         IN  query_validate(query, response)

set_esm_params(app_mapping_id_param, app_id, response) ==
    IF app_mapping_id_param # app_id
    THEN Returned(DifferentAppID)
    ELSE LET query ==
             [tag |-> "AddESMTriggerParamsForAppQuery",
              app_id |-> app_mapping_id_param]
         IN  query_validate(query, response)

(***************************************************************************)
(* Proposal: status resolution.                                            *)
(***************************************************************************)
\* is_passed counting only the opinions cast so far before expiration too
is_passed_cast_only(p, blk) ==
    CASE p.threshold.kind = "AbsoluteCount" ->
            p.votes.yes >= p.threshold.weight
      [] p.threshold.kind = "AbsolutePercentage" ->
            p.votes.yes
                >= votes_needed(p.total_weight - p.votes.abstain, p.threshold.percentage)
      [] p.threshold.kind = "ThresholdQuorum" ->
            IF total(p.votes) < votes_needed(p.total_weight, p.threshold.quorum)
            THEN FALSE
            ELSE LET opinions == total(p.votes) - p.votes.abstain
                 IN  p.votes.yes >= votes_needed(opinions, p.threshold.threshold)

\* is_passed measuring against all possible opinions after expiration too
is_passed_possible_only(p, blk) ==
    CASE p.threshold.kind = "AbsoluteCount" ->
            p.votes.yes >= p.threshold.weight
      [] p.threshold.kind = "AbsolutePercentage" ->
            p.votes.yes
                >= votes_needed(p.total_weight - p.votes.abstain, p.threshold.percentage)
      [] p.threshold.kind = "ThresholdQuorum" ->
            IF total(p.votes) < votes_needed(p.total_weight, p.threshold.quorum)
            THEN FALSE
            ELSE LET possible_opinions == p.total_weight - p.votes.abstain
                 IN  p.votes.yes >= votes_needed(possible_opinions, p.threshold.threshold)

\* is_passed with no quorum requirement in the ThresholdQuorum arm
is_passed_no_quorum(p, blk) ==
    CASE p.threshold.kind = "AbsoluteCount" ->
            p.votes.yes >= p.threshold.weight
      [] p.threshold.kind = "AbsolutePercentage" ->
            p.votes.yes
                >= votes_needed(p.total_weight - p.votes.abstain, p.threshold.percentage)
      [] p.threshold.kind = "ThresholdQuorum" ->
            IF is_expired(p.expires, blk)
            THEN LET opinions == total(p.votes) - p.votes.abstain
                 IN  p.votes.yes >= votes_needed(opinions, p.threshold.threshold)
            ELSE LET possible_opinions == p.total_weight - p.votes.abstain
                 IN  p.votes.yes >= votes_needed(possible_opinions, p.threshold.threshold)

is_passed(p, blk) ==
    CASE p.threshold.kind = "AbsoluteCount" ->
            p.votes.yes >= p.threshold.weight
      [] p.threshold.kind = "AbsolutePercentage" ->
            p.votes.yes
                >= votes_needed(p.total_weight - p.votes.abstain, p.threshold.percentage)
      [] p.threshold.kind = "ThresholdQuorum" ->
            IF total(p.votes) < votes_needed(p.total_weight, p.threshold.quorum)
            THEN FALSE
            ELSE IF is_expired(p.expires, blk)
            THEN LET opinions == total(p.votes) - p.votes.abstain
                 IN  p.votes.yes >= votes_needed(opinions, p.threshold.threshold)
            ELSE LET possible_opinions == p.total_weight - p.votes.abstain
                 IN  p.votes.yes >= votes_needed(possible_opinions, p.threshold.threshold)

\* is_rejected with a non-strict comparison in the AbsoluteCount arm
is_rejected_nonstrict(p, blk) ==
    CASE p.threshold.kind = "AbsoluteCount" ->
            LET weight == p.total_weight - p.threshold.weight
            IN  p.votes.no >= weight
      [] p.threshold.kind = "AbsolutePercentage" ->
            p.votes.no
                > votes_needed(p.total_weight - p.votes.abstain,
                               Decimal_sub(Decimal_one, p.threshold.percentage))
      [] p.threshold.kind = "ThresholdQuorum" ->
            IF is_expired(p.expires, blk)
            THEN LET opinions == total(p.votes) - p.votes.abstain
                 IN  p.votes.no
                        > votes_needed(opinions,
                                       Decimal_sub(Decimal_one, p.threshold.threshold))
            ELSE LET possible_opinions == p.total_weight - p.votes.abstain
                 IN  p.votes.no
                        > votes_needed(possible_opinions,
                                       Decimal_sub(Decimal_one, p.threshold.threshold))

\* is_rejected with the AbsolutePercentage arm using the pass fraction as the bar
is_rejected_same_bar(p, blk) ==
    CASE p.threshold.kind = "AbsoluteCount" ->
            LET weight == p.total_weight - p.threshold.weight
            IN  p.votes.no > weight
      [] p.threshold.kind = "AbsolutePercentage" ->
            p.votes.no
                > votes_needed(p.total_weight - p.votes.abstain, p.threshold.percentage)
      [] p.threshold.kind = "ThresholdQuorum" ->
            IF is_expired(p.expires, blk)
            THEN LET opinions == total(p.votes) - p.votes.abstain
                 IN  p.votes.no
                        > votes_needed(opinions,
                                       Decimal_sub(Decimal_one, p.threshold.threshold))
            ELSE LET possible_opinions == p.total_weight - p.votes.abstain
                 IN  p.votes.no
                        > votes_needed(possible_opinions,
                                       Decimal_sub(Decimal_one, p.threshold.threshold))

\* is_rejected requiring quorum in the ThresholdQuorum arm, as is_passed does
is_rejected_with_quorum(p, blk) ==
    CASE p.threshold.kind = "AbsoluteCount" ->
            LET weight == p.total_weight - p.threshold.weight
            IN  p.votes.no > weight
      [] p.threshold.kind = "AbsolutePercentage" ->
            p.votes.no
                > votes_needed(p.total_weight - p.votes.abstain,
                               Decimal_sub(Decimal_one, p.threshold.percentage))
      [] p.threshold.kind = "ThresholdQuorum" ->
            IF total(p.votes) < votes_needed(p.total_weight, p.threshold.quorum)
            THEN FALSE
            ELSE IF is_expired(p.expires, blk)
            THEN LET opinions == total(p.votes) - p.votes.abstain
                 IN  p.votes.no
                        > votes_needed(opinions,
                                       Decimal_sub(Decimal_one, p.threshold.threshold))
            ELSE LET possible_opinions == p.total_weight - p.votes.abstain
                 IN  p.votes.no
                        > votes_needed(possible_opinions,
                                       Decimal_sub(Decimal_one, p.threshold.threshold))

\* is_rejected counting veto weight as opposition
is_rejected_veto_opposes(p, blk) ==
    CASE p.threshold.kind = "AbsoluteCount" ->
            LET weight == p.total_weight - p.threshold.weight
            IN  p.votes.no + p.votes.veto > weight
      [] p.threshold.kind = "AbsolutePercentage" ->
            p.votes.no + p.votes.veto
                > votes_needed(p.total_weight - p.votes.abstain,
                               Decimal_sub(Decimal_one, p.threshold.percentage))
      [] p.threshold.kind = "ThresholdQuorum" ->
            IF is_expired(p.expires, blk)
            THEN LET opinions == total(p.votes) - p.votes.abstain
                 IN  p.votes.no + p.votes.veto
                        > votes_needed(opinions,
                                       Decimal_sub(Decimal_one, p.threshold.threshold))
            ELSE LET possible_opinions == p.total_weight - p.votes.abstain
                 IN  p.votes.no + p.votes.veto
                        > votes_needed(possible_opinions,
                                       Decimal_sub(Decimal_one, p.threshold.threshold))

is_rejected(p, blk) ==
    CASE p.threshold.kind = "AbsoluteCount" ->
            LET weight == p.total_weight - p.threshold.weight
            IN  p.votes.no > weight
      [] p.threshold.kind = "AbsolutePercentage" ->
            p.votes.no
                > votes_needed(p.total_weight - p.votes.abstain,
                               Decimal_sub(Decimal_one, p.threshold.percentage))
      [] p.threshold.kind = "ThresholdQuorum" ->
            IF is_expired(p.expires, blk)
            THEN LET opinions == total(p.votes) - p.votes.abstain
                 IN  p.votes.no
                        > votes_needed(opinions,
                                       Decimal_sub(Decimal_one, p.threshold.threshold))
            ELSE LET possible_opinions == p.total_weight - p.votes.abstain
                 IN  p.votes.no
                        > votes_needed(possible_opinions,
                                       Decimal_sub(Decimal_one, p.threshold.threshold))

\* current_status whose timeout check does not look at the status
current_status_unguarded(p, blk) ==
    LET status1 == IF p.status = "Open" /\ is_passed(p, blk)
                   THEN "Passed" ELSE p.status
    IN  IF is_rejected(p, blk) \/ is_expired(p.expires, blk)
        THEN "Rejected" ELSE status1

\* current_status with the two checks in the opposite order
current_status_reject_first(p, blk) ==
    LET status1 == IF p.status = "Open"
                      /\ (is_rejected(p, blk) \/ is_expired(p.expires, blk))
                   THEN "Rejected" ELSE p.status
    IN  IF status1 = "Open" /\ is_passed(p, blk)
        THEN "Passed" ELSE status1

\* current_status without the expiration test
current_status_no_timeout(p, blk) ==
    LET status1 == IF p.status = "Open" /\ is_passed(p, blk)
                   THEN "Passed" ELSE p.status
    IN  IF status1 = "Open" /\ is_rejected(p, blk)
        THEN "Rejected" ELSE status1

current_status(p, blk) ==
    LET status1 == IF p.status = "Open" /\ is_passed(p, blk)
                   THEN "Passed" ELSE p.status
    IN  IF status1 = "Open" /\ (is_rejected(p, blk) \/ is_expired(p.expires, blk))
        THEN "Rejected" ELSE status1

\* update_status that also latches deposit_refunded
update_status_refunding(p, blk) ==
    [p EXCEPT !.status = current_status(p, blk), !.deposit_refunded = TRUE]

update_status(p, blk) == [p EXCEPT !.status = current_status(p, blk)]

(***************************************************************************)
(* ProposalStore: PROPOSAL_COUNT, absent until its first save, and         *)
(* PROPOSALSBYAPP.                                                         *)
(***************************************************************************)
AppIds == 1..MaxAppId

\* Option<u64>, the result of may_load, as a sequence of at most one value
None == << >>
Some(x) == << x >>
unwrap_or_default(o) == IF o = None THEN 0 ELSE o[1]

EmptyStore == [proposal_count |-> None,
               proposals_by_app |-> [a \in AppIds |-> << >>]]

\* next_id returning the id without saving it
next_id_unsaved(st) ==
    LET id == unwrap_or_default(st.proposal_count) + 1
    IN  [id |-> id, store |-> st]

\* next_id: the id it returns and the store it leaves
next_id(st) ==
    LET id == unwrap_or_default(st.proposal_count) + 1
    IN  [id |-> id, store |-> [st EXCEPT !.proposal_count = Some(id)]]

(***************************************************************************)
(* State.                                                                  *)
(*   proposal  the stored Proposal (PROPOSALS entry of one proposal id)    *)
(*   ballots   BALLOTS restricted to that proposal id: voter -> Ballot     *)
(*   block     the BlockInfo the host supplies to every call               *)
(*   ret       what the last call in the current block returned            *)
(*   math      inputs and results of the votes_needed harness (SpecMath)   *)
(*   validation  the last call of a validation function and its result     *)
(*   querier   number of queries the external validator has received       *)
(*   store     PROPOSAL_COUNT and PROPOSALSBYAPP                           *)
(*   issued    the ids next_id has returned, in order                      *)
(***************************************************************************)
VARIABLES proposal, ballots, block, ret, math, validation, querier, store, issued

vars == << proposal, ballots, block, ret, math, validation, querier, store, issued >>

\* the variables of the proposal lifecycle, of the validation functions and
\* of the id store
proposalVars == << proposal, ballots, block, ret >>
validationVars == << validation, querier >>
storeVars == << store, issued >>

Voters == {"v1", "v2", "v3"}

NoBallot == [weight |-> 0, vote |-> "None"]
Ballot(weight, vote) == [weight |-> weight, vote |-> vote]

NoCall == [op |-> "none", val |-> "none"]
NoMath == [weight1 |-> 0, fraction1 |-> Decimal_zero,
           weight2 |-> 0, fraction2 |-> Decimal_zero,
           needed1 |-> -1, needed2 |-> -1]

NoResponse == MessageValidateResponse(FALSE, "")

\* validation: the function called, its arguments (those the function does
\* not have are zero), the queries it sent, the response it got and its result
NoValidation ==
    [fn |-> "none", threshold |-> Decimal_zero, quorum |-> Decimal_zero,
     app_mapping_id_param |-> 0, app_id |-> 0,
     sent |-> << >>, response |-> NoResponse, ret |-> Result("none", "")]

\* the variables outside the proposal lifecycle, before their first use
IdleInit ==
    /\ validation = NoValidation
    /\ querier = 0
    /\ store = EmptyStore
    /\ issued = << >>

Expirations == {AtHeight(1), AtTime(3), Never}

\* the threshold policies a proposal is created with: ThresholdQuorum only
\* with fractions validate_threshold accepts
Thresholds(total_weight) ==
    {AbsoluteCount(w) : w \in 1..total_weight}
    \cup {AbsolutePercentage(pc) : pc \in PercentageChoices}
    \cup {ThresholdQuorum(t, q) : << t, q >> \in
              {tq \in ThresholdChoices \X QuorumChoices :
                  validate_threshold(tq[1], tq[2]) = "Ok"}}

NewProposal(threshold, total_weight, expires) ==
    [start_height |-> 0,
     expires |-> expires,
     status |-> "Open",
     threshold |-> threshold,
     total_weight |-> total_weight,
     votes |-> Votes_new,
     proposer |-> "v1",
     deposit_refunded |-> FALSE,
     current_deposit |-> 0]

Init ==
    /\ \E tw \in 1..MaxTotalWeight :
         \E th \in Thresholds(tw) :
           \E ex \in Expirations :
              proposal = NewProposal(th, tw, ex)
    /\ ballots = [v \in Voters |-> NoBallot]
    /\ block = [height |-> 0, time |-> 0]
    /\ ret = NoCall
    /\ math = NoMath
    /\ IdleInit

\* BallotLedger cast: one ballot per (proposal id, voter); the caller supplies
\* a weight from the snapshot total_weight was taken from
cast(voter, vote, weight) ==
    IF ballots[voter] # NoBallot
    THEN /\ ret' = [op |-> "cast", val |-> "AlreadyVoted"]
         /\ UNCHANGED << proposal, ballots >>
    ELSE /\ ballots' = [ballots EXCEPT ![voter] = Ballot(weight, vote)]
         /\ proposal' = [proposal EXCEPT !.votes = add_vote(@, vote, weight)]
         /\ ret' = NoCall

\* The dispatch layer's vote entry point.  The weight it supplies comes from
\* the snapshot total_weight was taken from, so the weights of all ballots
\* together never exceed total_weight.  A repeated cast fails on the ballot
\* key before its vote and weight are looked at: one pair stands for all.
Cast ==
    /\ \E voter \in Voters :
         IF ballots[voter] # NoBallot
         THEN cast(voter, "Yes", MaxTotalWeight)
         ELSE \E vote \in VoteOptions :
               \E weight \in 1..MaxTotalWeight :
                  /\ total(proposal.votes) + weight <= proposal.total_weight
                  /\ cast(voter, vote, weight)
    /\ UNCHANGED << block, math, validationVars, storeVars >>

UpdateStatus ==
    /\ proposal' = update_status(proposal, block)
    /\ ret' = NoCall
    /\ UNCHANGED << ballots, block, math, validationVars, storeVars >>

\* a status query that goes through update_status
QueryStatus_updating ==
    /\ ret' = [op |-> "current_status", val |-> current_status(proposal, block)]
    /\ proposal' = update_status(proposal, block)
    /\ UNCHANGED << ballots, block, math, validationVars, storeVars >>

QueryStatus ==
    /\ ret' = [op |-> "current_status", val |-> current_status(proposal, block)]
    /\ UNCHANGED << proposal, ballots, block, math, validationVars, storeVars >>

\* the host moves to the next block, two time units later
NewBlock ==
    /\ block.height < MaxHeight
    /\ block' = [height |-> block.height + 1, time |-> block.time + 2]
    /\ ret' = NoCall
    /\ UNCHANGED << proposal, ballots, math, validationVars, storeVars >>

Next == Cast \/ UpdateStatus \/ QueryStatus \/ NewBlock

Spec == Init /\ [][Next]_vars

(***************************************************************************)
(* SpecMath: votes_needed applied to two argument pairs drawn from bounded *)
(* sets.  The proposal plays no part in it.                                *)
(***************************************************************************)
MathFractions ==
    {Decimal_epsilon, Decimal_third, Decimal_percent(50),
     BigAdd(Decimal_percent(50), Decimal_epsilon), Decimal_two_thirds, Decimal_one}

InitMath ==
    /\ proposal = NewProposal(AbsoluteCount(1), 1, Never)
    /\ ballots = [v \in Voters |-> NoBallot]
    /\ block = [height |-> 0, time |-> 0]
    /\ ret = NoCall
    /\ \E w1 \in 0..MaxMathWeight, w2 \in 0..MaxMathWeight :
         \E f1 \in MathFractions, f2 \in MathFractions :
            math = [weight1 |-> w1, fraction1 |-> f1,
                    weight2 |-> w2, fraction2 |-> f2,
                    needed1 |-> -1, needed2 |-> -1]
    /\ IdleInit

ApplyVotesNeeded ==
    /\ math.needed1 = -1
    /\ math' = [math EXCEPT !.needed1 = votes_needed(math.weight1, math.fraction1),
                            !.needed2 = votes_needed(math.weight2, math.fraction2)]
    /\ UNCHANGED << proposalVars, validationVars, storeVars >>

NextMath == ApplyVotesNeeded

SpecMath == InitMath /\ [][NextMath]_vars

(***************************************************************************)
(* SpecValidation: calls of validate_threshold and of the validation       *)
(* functions of governance actions, against an external validator whose    *)
(* answer to a query is any response or a failure.                         *)
(***************************************************************************)
ValidationThresholds ==
    {Decimal_zero, Decimal_percent(49),
     BigSub(Decimal_percent(50), Decimal_epsilon), Decimal_percent(50),
     Decimal_two_thirds, Decimal_one,
     BigAdd(Decimal_one, Decimal_epsilon), Decimal_percent(110)}

ValidationQuorums ==
    {Decimal_zero, Decimal_epsilon, Decimal_third, Decimal_percent(75),
     Decimal_one, BigAdd(Decimal_one, Decimal_epsilon), Decimal_percent(200)}

\* asset, pair and extended pair ids of action payloads
ParamIds == {11, 12}

Errs == {"", "app does not exist", "pair does not exist"}

Responses ==
    {MessageValidateResponse(found, err) : found \in BOOLEAN, err \in Errs}
    \cup {QueryFailed}

InitValidation ==
    /\ proposal = NewProposal(AbsoluteCount(1), 1, Never)
    /\ ballots = [v \in Voters |-> NoBallot]
    /\ block = [height |-> 0, time |-> 0]
    /\ ret = NoCall
    /\ math = NoMath
    /\ IdleInit

ValidateThreshold ==
    /\ \E threshold \in ValidationThresholds, quorum \in ValidationQuorums :
         validation' = [NoValidation EXCEPT
                           !.fn = "validate_threshold",
                           !.threshold = threshold,
                           !.quorum = quorum,
                           !.ret = Result(validate_threshold(threshold, quorum), "")]
    /\ UNCHANGED << proposalVars, math, querier, storeVars >>

\* the record of a call of a validation function: out is what the function
\* returned and sent
Validated(fn, app_mapping_id_param, app_id, response, out) ==
    [NoValidation EXCEPT
        !.fn = fn,
        !.app_mapping_id_param = app_mapping_id_param,
        !.app_id = app_id,
        !.sent = out.sent,
        !.response = IF out.sent = << >> THEN NoResponse ELSE response,
        !.ret = out.ret]

\* Each action below is one call of a validation function; the validator
\* receives the queries the call sends.
Call_update_pairvault_stability ==
    \E app_mapping_id_param \in AppIds, app_id \in AppIds :
      \E p1 \in ParamIds, response \in Responses :
         LET out == update_pairvault_stability(app_mapping_id_param, p1, app_id, response)
         IN  /\ querier + Len(out.sent) <= MaxQueries
             /\ validation' = Validated("update_pairvault_stability", app_mapping_id_param,
                                        app_id, response, out)
             /\ querier' = querier + Len(out.sent)
             /\ UNCHANGED << proposalVars, math, storeVars >>

Call_update_locker_lsr ==
    \E app_mapping_id_param \in AppIds, app_id \in AppIds :
      \E p1 \in ParamIds, response \in Responses :
         LET out == update_locker_lsr(app_mapping_id_param, p1, app_id, response)
         IN  /\ querier + Len(out.sent) <= MaxQueries
             /\ validation' = Validated("update_locker_lsr", app_mapping_id_param,
                                        app_id, response, out)
             /\ querier' = querier + Len(out.sent)
             /\ UNCHANGED << proposalVars, math, storeVars >>

Call_remove_whitelist_asset_locker ==
    \E app_mapping_id_param \in AppIds, app_id \in AppIds :
      \E p1 \in ParamIds, response \in Responses :
         LET out == remove_whitelist_asset_locker(app_mapping_id_param, p1, app_id, response)
         IN  /\ querier + Len(out.sent) <= MaxQueries
             /\ validation' = Validated("remove_whitelist_asset_locker", app_mapping_id_param,
                                        app_id, response, out)
             /\ querier' = querier + Len(out.sent)
             /\ UNCHANGED << proposalVars, math, storeVars >>

Call_remove_whitelist_app_id_vault_interest ==
    \E app_mapping_id_param \in AppIds, app_id \in AppIds :
      \E response \in Responses :
         LET out == remove_whitelist_app_id_vault_interest(app_mapping_id_param, app_id, response)
         IN  /\ querier + Len(out.sent) <= MaxQueries
             /\ validation' = Validated("remove_whitelist_app_id_vault_interest", app_mapping_id_param,
                                        app_id, response, out)
             /\ querier' = querier + Len(out.sent)
             /\ UNCHANGED << proposalVars, math, storeVars >>

Call_whitelist_app_id_liquidation ==
    \E app_mapping_id_param \in AppIds, app_id \in AppIds :
      \E response \in Responses :
         LET out == whitelist_app_id_liquidation(app_mapping_id_param, app_id, response)
         IN  /\ querier + Len(out.sent) <= MaxQueries
             /\ validation' = Validated("whitelist_app_id_liquidation", app_mapping_id_param,
                                        app_id, response, out)
             /\ querier' = querier + Len(out.sent)
             /\ UNCHANGED << proposalVars, math, storeVars >>

Call_remove_whitelist_app_id_liquidation ==
    \E app_mapping_id_param \in AppIds, app_id \in AppIds :
      \E response \in Responses :
         LET out == remove_whitelist_app_id_liquidation(app_mapping_id_param, app_id, response)
         IN  /\ querier + Len(out.sent) <= MaxQueries
             /\ validation' = Validated("remove_whitelist_app_id_liquidation", app_mapping_id_param,
                                        app_id, response, out)
             /\ querier' = querier + Len(out.sent)
             /\ UNCHANGED << proposalVars, math, storeVars >>

Call_whitelist_asset_locker_rewards ==
    \E app_mapping_id_param \in AppIds, app_id \in AppIds :
      \E p1 \in ParamIds, response \in Responses :
         LET out == whitelist_asset_locker_rewards(app_mapping_id_param, p1, app_id, response)
         IN  /\ querier + Len(out.sent) <= MaxQueries
             /\ validation' = Validated("whitelist_asset_locker_rewards", app_mapping_id_param,
                                        app_id, response, out)
             /\ querier' = querier + Len(out.sent)
             /\ UNCHANGED << proposalVars, math, storeVars >>

Call_whitelist_asset_locker_eligible ==
    \E app_mapping_id_param \in AppIds, app_id \in AppIds :
      \E p1 \in ParamIds, response \in Responses :
         LET out == whitelist_asset_locker_eligible(app_mapping_id_param, p1, app_id, response)
         IN  /\ querier + Len(out.sent) <= MaxQueries
             /\ validation' = Validated("whitelist_asset_locker_eligible", app_mapping_id_param,
                                        app_id, response, out)
             /\ querier' = querier + Len(out.sent)
             /\ UNCHANGED << proposalVars, math, storeVars >>

Call_collector_lookup_table ==
    \E app_mapping_id_param \in AppIds, app_id \in AppIds :
      \E p1, p2 \in ParamIds, response \in Responses :
         LET out == collector_lookup_table(app_mapping_id_param, p1, p2, app_id, response)
         IN  /\ querier + Len(out.sent) <= MaxQueries
             /\ validation' = Validated("collector_lookup_table", app_mapping_id_param,
                                        app_id, response, out)
             /\ querier' = querier + Len(out.sent)
             /\ UNCHANGED << proposalVars, math, storeVars >>

Call_auction_mapping_for_app ==
    \E app_mapping_id_param \in AppIds, app_id \in AppIds :
      \E response \in Responses :
         LET out == auction_mapping_for_app(app_mapping_id_param, app_id, response)
         IN  /\ querier + Len(out.sent) <= MaxQueries
             /\ validation' = Validated("auction_mapping_for_app", app_mapping_id_param,
                                        app_id, response, out)
             /\ querier' = querier + Len(out.sent)
             /\ UNCHANGED << proposalVars, math, storeVars >>

Call_add_extended_pair_vault ==
    \E app_mapping_id_param \in AppIds, app_id \in AppIds :
      \E pair_id_param \in ParamIds, response \in Responses :
         LET out == add_extended_pair_vault(app_id,
                            ExtendedPair(app_mapping_id_param, pair_id_param),
                            response)
         IN  /\ querier + Len(out.sent) <= MaxQueries
             /\ validation' = Validated("add_extended_pair_vault", app_mapping_id_param,
                                        app_id, response, out)
             /\ querier' = querier + Len(out.sent)
             /\ UNCHANGED << proposalVars, math, storeVars >>

Call_whitelist_app_id_vault_interest ==
    \E app_mapping_id_param \in AppIds, app_id \in AppIds :
      \E response \in Responses :
         LET out == whitelist_app_id_vault_interest(app_mapping_id_param, app_id, response)
         IN  /\ querier + Len(out.sent) <= MaxQueries
             /\ validation' = Validated("whitelist_app_id_vault_interest", app_mapping_id_param,
                                        app_id, response, out)
             /\ querier' = querier + Len(out.sent)
             /\ UNCHANGED << proposalVars, math, storeVars >>

Call_set_esm_params ==
    \E app_mapping_id_param \in AppIds, app_id \in AppIds :
      \E response \in Responses :
         LET out == set_esm_params(app_mapping_id_param, app_id, response)
         IN  /\ querier + Len(out.sent) <= MaxQueries
             /\ validation' = Validated("set_esm_params", app_mapping_id_param,
                                        app_id, response, out)
             /\ querier' = querier + Len(out.sent)
             /\ UNCHANGED << proposalVars, math, storeVars >>

\* the validation functions of governance actions
ActionValidations ==
    {"update_pairvault_stability",
     "update_locker_lsr",
     "remove_whitelist_asset_locker",
     "remove_whitelist_app_id_vault_interest",
     "whitelist_app_id_liquidation",
     "remove_whitelist_app_id_liquidation",
     "whitelist_asset_locker_rewards",
     "whitelist_asset_locker_eligible",
     "collector_lookup_table",
     "auction_mapping_for_app",
     "add_extended_pair_vault",
     "whitelist_app_id_vault_interest",
     "set_esm_params"}

NextValidation ==
    \/ ValidateThreshold
    \/ Call_update_pairvault_stability
    \/ Call_update_locker_lsr
    \/ Call_remove_whitelist_asset_locker
    \/ Call_remove_whitelist_app_id_vault_interest
    \/ Call_whitelist_app_id_liquidation
    \/ Call_remove_whitelist_app_id_liquidation
    \/ Call_whitelist_asset_locker_rewards
    \/ Call_whitelist_asset_locker_eligible
    \/ Call_collector_lookup_table
    \/ Call_auction_mapping_for_app
    \/ Call_add_extended_pair_vault
    \/ Call_whitelist_app_id_vault_interest
    \/ Call_set_esm_params

SpecValidation == InitValidation /\ [][NextValidation]_vars

(***************************************************************************)
(* SpecStore: proposals created one after the other, each under an app,    *)
(* with the id next_id returns.                                            *)
(***************************************************************************)
InitStore ==
    /\ proposal = NewProposal(AbsoluteCount(1), 1, Never)
    /\ ballots = [v \in Voters |-> NoBallot]
    /\ block = [height |-> 0, time |-> 0]
    /\ ret = NoCall
    /\ math = NoMath
    /\ IdleInit

\* the dispatch layer creates a proposal: it takes the next id and appends it
\* to the list of the owning app
Propose ==
    /\ Len(issued) < MaxProposals
    /\ \E app \in AppIds :
         LET got == next_id(store)
         IN  /\ store' = [got.store EXCEPT
                             !.proposals_by_app[app] = Append(@, got.id)]
             /\ issued' = Append(issued, got.id)
    /\ UNCHANGED << proposalVars, math, validationVars >>

NextStore == Propose

SpecStore == InitStore /\ [][NextStore]_vars

(***************************************************************************)
(* SpecU128: the proposal lifecycle with the unsigned arithmetic of status *)
(* resolution kept in its width.  total_weight, weight_needed and the      *)
(* tallies are u128: a difference below zero aborts the call in a build    *)
(* with overflow checks and wraps modulo 2^128 in a build without them.    *)
(* Decimal's subtraction aborts the call in every build.                   *)
(***************************************************************************)
\* 2^128, in limbs
U128Modulus ==
    LET p32 == BigMul(Limbs(65536), Limbs(65536))
        p64 == BigMul(p32, p32)
    IN  BigMul(p64, p64)

\* a - b on u128 without overflow checks, in limbs
wrapping_sub(a, b) ==
    IF a >= b THEN Limbs(a - b) ELSE BigSub(U128Modulus, Limbs(b - a))

\* the differences below zero among those one call of is_passed computes
is_passed_underflows(p, blk) ==
    CASE p.threshold.kind = "AbsoluteCount" -> {}
      [] p.threshold.kind = "AbsolutePercentage" ->
            IF p.total_weight < p.votes.abstain
            THEN {"total_weight - abstain"} ELSE {}
      [] p.threshold.kind = "ThresholdQuorum" ->
            IF total(p.votes) < votes_needed(p.total_weight, p.threshold.quorum)
            THEN {}
            ELSE IF is_expired(p.expires, blk)
            THEN IF total(p.votes) < p.votes.abstain
                 THEN {"votes.total() - abstain"} ELSE {}
            ELSE IF p.total_weight < p.votes.abstain
                 THEN {"total_weight - abstain"} ELSE {}

\* the differences below zero among those one call of is_rejected computes
is_rejected_underflows(p, blk) ==
    CASE p.threshold.kind = "AbsoluteCount" ->
            IF p.total_weight < p.threshold.weight
            THEN {"total_weight - weight_needed"} ELSE {}
      [] p.threshold.kind = "AbsolutePercentage" ->
            (IF p.total_weight < p.votes.abstain
             THEN {"total_weight - abstain"} ELSE {})
            \cup (IF BigLess(Decimal_one, p.threshold.percentage)
                  THEN {"1 - fraction"} ELSE {})
      [] p.threshold.kind = "ThresholdQuorum" ->
            (IF is_expired(p.expires, blk)
             THEN IF total(p.votes) < p.votes.abstain
                  THEN {"votes.total() - abstain"} ELSE {}
             ELSE IF p.total_weight < p.votes.abstain
                  THEN {"total_weight - abstain"} ELSE {})
            \cup (IF BigLess(Decimal_one, p.threshold.threshold)
                  THEN {"1 - fraction"} ELSE {})

\* the differences below zero among those one call of current_status computes:
\* is_passed is evaluated on an Open proposal only, and is_rejected only when
\* is_passed has returned false
current_status_underflows(p, blk) ==
    IF p.status # "Open" THEN {}
    ELSE IF is_passed_underflows(p, blk) # {} THEN is_passed_underflows(p, blk)
    ELSE IF is_passed(p, blk) THEN {}
    ELSE is_rejected_underflows(p, blk)

\* is_rejected in a build without overflow checks, where total_weight -
\* weight_needed wraps.  The other differences are as in is_rejected.
is_rejected_wrapping(p, blk) ==
    CASE p.threshold.kind = "AbsoluteCount" ->
            LET weight == wrapping_sub(p.total_weight, p.threshold.weight)
            IN  BigLess(weight, Limbs(p.votes.no))
      [] OTHER -> is_rejected(p, blk)

current_status_wrapping(p, blk) ==
    LET status1 == IF p.status = "Open" /\ is_passed(p, blk)
                   THEN "Passed" ELSE p.status
    IN  IF status1 = "Open"
           /\ (is_rejected_wrapping(p, blk) \/ is_expired(p.expires, blk))
        THEN "Rejected" ELSE status1

\* what a call that evaluates current_status returns: the status, or Panicked
\* when the call aborts; negative holds the differences below zero it computed
Evaluated(op, val, negative) == [op |-> op, val |-> val, negative |-> negative]

\* the outcomes of evaluating current_status: without a difference below zero
\* the status; with one, the abort of the call, or (when the only such
\* difference is the u128 total_weight - weight_needed) the status computed
\* from the wrapped difference
Outcomes(p, blk) ==
    LET negative == current_status_underflows(p, blk)
    IN  IF negative = {}
        THEN {[val |-> current_status(p, blk), negative |-> {}]}
        ELSE {[val |-> "Panicked", negative |-> negative]}
             \cup (IF negative = {"total_weight - weight_needed"}
                   THEN {[val |-> current_status_wrapping(p, blk),
                          negative |-> negative]}
                   ELSE {})

\* the threshold policies of Init, and the AbsoluteCount policy whose
\* weight_needed is above total_weight: validate_threshold looks at the
\* fractions of a policy only
ThresholdsU128(total_weight) ==
    Thresholds(total_weight) \cup {AbsoluteCount(total_weight + 1)}

InitU128 ==
    /\ \E tw \in 1..MaxTotalWeight :
         \E th \in ThresholdsU128(tw) :
           \E ex \in Expirations :
              proposal = NewProposal(th, tw, ex)
    /\ ballots = [v \in Voters |-> NoBallot]
    /\ block = [height |-> 0, time |-> 0]
    /\ ret = NoCall
    /\ math = NoMath
    /\ IdleInit

\* update_status: an aborted call leaves the stored proposal as it was
UpdateStatusU128 ==
    /\ \E out \in Outcomes(proposal, block) :
         /\ proposal' = IF out.val = "Panicked" THEN proposal
                        ELSE [proposal EXCEPT !.status = out.val]
         /\ ret' = Evaluated("update_status", out.val, out.negative)
    /\ UNCHANGED << ballots, block, math, validationVars, storeVars >>

QueryStatusU128 ==
    /\ \E out \in Outcomes(proposal, block) :
         ret' = Evaluated("current_status", out.val, out.negative)
    /\ UNCHANGED << proposal, ballots, block, math, validationVars, storeVars >>

NextU128 == Cast \/ UpdateStatusU128 \/ QueryStatusU128 \/ NewBlock

SpecU128 == InitU128 /\ [][NextU128]_vars

(***************************************************************************)
(* Properties.                                                             *)
(***************************************************************************)
Expired == is_expired(proposal.expires, block)

\* the block the proposal was created in; no expiration of the model holds there
StartBlock == [height |-> 0, time |-> 0]

\* C1: terminal statuses are absorbing.  From a state whose stored status is
\* Passed or Rejected, no step (a ballot, an update_status, a new block)
\* changes the stored status, and current_status keeps returning it.
C1_TerminalAbsorbing ==
    [][proposal.status # "Open" =>
          /\ proposal'.status = proposal.status
          /\ current_status(proposal', block') = proposal.status]_vars

\* a proposal stored Rejected whose later ballots satisfy is_passed
C1_Witness ==
    /\ proposal.status = "Rejected"
    /\ is_passed(proposal, block)
    /\ total(proposal.votes) > 0

\* every clock reading of the model
AllBlocks == {[height |-> h, time |-> 2 * h] : h \in 0..MaxHeight}

\* is_passed (is_rejected) holds at a clock before expiration.  The clock
\* enters both only through is_expired, and a proposal that is not expired at
\* some clock is not expired at StartBlock, so StartBlock stands for every
\* clock before expiration.
PassedBeforeExpiration(p) ==
    ~is_expired(p.expires, StartBlock) /\ is_passed(p, StartBlock)

RejectedBeforeExpiration(p) ==
    ~is_expired(p.expires, StartBlock) /\ is_rejected(p, StartBlock)

\* C2: early pass is sound.  If is_passed holds of a proposal state at a
\* clock before expiration, it holds of that state at every clock, and after
\* any step (a further ballot, a new block) it holds at every clock again,
\* the clocks at and after expiration included; so, step after step, no
\* sequence of further ballots flips an early Passed.
C2_EarlyPassSound ==
    /\ [](PassedBeforeExpiration(proposal) =>
             \A b \in AllBlocks : is_passed(proposal, b))
    /\ [][PassedBeforeExpiration(proposal) =>
             \A b \in AllBlocks : is_passed(proposal', b)]_vars

\* an expired ThresholdQuorum proposal that cleared the pre-expiration bar and
\* still passes with opposing ballots in the tally
C2_Witness ==
    /\ proposal.threshold.kind = "ThresholdQuorum"
    /\ Expired
    /\ is_passed(proposal, StartBlock)
    /\ is_passed(proposal, block)
    /\ proposal.votes.no + proposal.votes.veto > 0
    /\ total(proposal.votes) = proposal.total_weight

\* C3: early rejection is sound.  If is_rejected holds of a proposal state
\* at a clock before expiration, is_passed is false of that state at every
\* clock, and after any step (a further ballot, a new block) the rejection
\* bar is still met and is_passed is false at every clock; so, step after
\* step, a proposal rejected early can never pass.
C3_EarlyRejectSound ==
    /\ [](RejectedBeforeExpiration(proposal) =>
             \A b \in AllBlocks : ~is_passed(proposal, b))
    /\ [][RejectedBeforeExpiration(proposal) =>
             /\ RejectedBeforeExpiration(proposal')
             /\ \A b \in AllBlocks : ~is_passed(proposal', b)]_vars

\* an expired proposal that met the pre-expiration rejection bar, has yes
\* ballots and every weight cast, and does not pass
C3_Witness ==
    /\ Expired
    /\ is_rejected(proposal, StartBlock)
    /\ proposal.votes.yes > 0
    /\ total(proposal.votes) = proposal.total_weight
    /\ ~is_passed(proposal, block)

RECURSIVE BallotWeight(_, _)
\* the weights of the recorded ballots of the voters in S, for the votes in vs
BallotWeight(S, vs) ==
    IF S = {} THEN 0
    ELSE LET v == CHOOSE x \in S : TRUE
         IN  (IF ballots[v].vote \in vs THEN ballots[v].weight ELSE 0)
             + BallotWeight(S \ {v}, vs)

\* C5: double votes are rejected.  The tally is the sum of the recorded
\* ballots (votes.total() is the sum of all their weights); a recorded ballot
\* never changes; a call that returns AlreadyVoted changes neither the
\* proposal nor the ballots; the tally changes only by one voter without a
\* ballot getting one.
C5_NoDoubleCount ==
    /\ [](total(proposal.votes) = BallotWeight(Voters, VoteOptions))
    /\ [][\A v \in Voters : ballots[v] # NoBallot => ballots'[v] = ballots[v]]_vars
    /\ [][ret'.val = "AlreadyVoted" => UNCHANGED << proposal, ballots >>]_vars
    /\ [][proposal'.votes # proposal.votes =>
            \E v \in Voters :
               /\ ballots[v] = NoBallot
               /\ ballots'[v] # NoBallot
               /\ \A u \in Voters \ {v} : ballots'[u] = ballots[u]]_vars

\* a second cast by a voter was refused after two voters had voted yes
C5_Witness ==
    /\ ret.val = "AlreadyVoted"
    /\ Cardinality({v \in Voters : ballots[v].vote = "Yes"}) >= 2
    /\ proposal.votes.yes = BallotWeight(Voters, {"Yes"})

\* ceil(fraction * weight) computed exactly: ceil(weight * atomics / 10^18)
CeilOfProduct(weight, fraction) ==
    BigToInt(BigShiftDown(
        BigAdd(BigMul(Limbs(weight), fraction),
               BigSub(Decimal_one, DecimalAtomics(1))),
        DecimalFractionalLimbs))

MathApplied == math.needed1 # -1

\* C6: votes_needed(weight, fraction) is exactly ceil(fraction * weight) for
\* every weight and every fraction in (0, 1] with 18 fractional digits.
C6_VotesNeededIsCeil ==
    MathApplied => math.needed1 = CeilOfProduct(math.weight1, math.fraction1)

\* C7: votes_needed is monotonically non-decreasing in both arguments.
C7_VotesNeededMonotone ==
    (MathApplied /\ math.weight1 <= math.weight2
                 /\ BigLeq(math.fraction1, math.fraction2))
        => math.needed1 <= math.needed2

\* both arguments strictly larger and the result strictly larger
C7_Witness ==
    /\ MathApplied
    /\ math.weight1 < math.weight2
    /\ BigLess(math.fraction1, math.fraction2)
    /\ math.needed1 < math.needed2
    /\ math.needed1 > 0

\* C8: current_status is a pure query.  A call changes no field of the
\* proposal (nor the ballots or the clock), and a call that follows another
\* one in the same block, with nothing in between, returns the same status.
C8_QueryIsPure ==
    [][ret'.op = "current_status" =>
          /\ UNCHANGED << proposal, ballots, block >>
          /\ (ret.op = "current_status" => ret'.val = ret.val)]_vars

\* a query answered Passed or Rejected while the stored status is still Open
C8_Witness ==
    /\ ret.op = "current_status"
    /\ ret.val # "Open"
    /\ proposal.status = "Open"

\* the resolution order of the specification
ResolutionOrder(p, blk) ==
    IF p.status # "Open" THEN p.status
    ELSE IF is_passed(p, blk) THEN "Passed"
    ELSE IF is_rejected(p, blk) \/ is_expired(p.expires, blk) THEN "Rejected"
    ELSE "Open"

\* C9: current_status follows the four-step resolution order: the stored
\* status if it is not Open, else Passed if is_passed, else Rejected if
\* is_rejected or expired, else Open.
C9_ResolutionOrder ==
    ret.op = "current_status" => ret.val = ResolutionOrder(proposal, block)

\* an Open proposal that is expired and satisfies is_passed resolves to Passed
C9_Witness ==
    /\ ret.op = "current_status"
    /\ proposal.status = "Open"
    /\ Expired
    /\ is_passed(proposal, block)
    /\ ret.val = "Passed"

\* the pass condition of each policy, as the specification defines it
PolicyPass(p, blk) ==
    LET D == IF is_expired(p.expires, blk)
             THEN total(p.votes) - p.votes.abstain
             ELSE p.total_weight - p.votes.abstain
    IN  CASE p.threshold.kind = "AbsoluteCount" ->
                p.votes.yes >= p.threshold.weight
          [] p.threshold.kind = "AbsolutePercentage" ->
                p.votes.yes >= votes_needed(p.total_weight - p.votes.abstain,
                                            p.threshold.percentage)
          [] p.threshold.kind = "ThresholdQuorum" ->
                /\ total(p.votes) >= votes_needed(p.total_weight, p.threshold.quorum)
                /\ p.votes.yes >= votes_needed(D, p.threshold.threshold)

\* C10: is_passed matches the policy definitions, the ThresholdQuorum
\* denominator being the opinions cast once expired and all possible
\* opinions before.
C10_PassMatchesPolicy ==
    is_passed(proposal, block) = PolicyPass(proposal, block)

\* an expired ThresholdQuorum proposal that passes on the opinions cast but
\* would not against all possible opinions
C10_Witness ==
    /\ proposal.threshold.kind = "ThresholdQuorum"
    /\ Expired
    /\ is_passed(proposal, block)
    /\ proposal.votes.yes
          < votes_needed(proposal.total_weight - proposal.votes.abstain,
                         proposal.threshold.threshold)

\* the participation of a ThresholdQuorum proposal is below its quorum
QuorumUnmet(p) ==
    /\ p.threshold.kind = "ThresholdQuorum"
    /\ total(p.votes) < votes_needed(p.total_weight, p.threshold.quorum)

\* C11: quorum is required to pass.  Under ThresholdQuorum, while
\* votes.total() < votes_needed(total_weight, quorum), is_passed is false at
\* every clock, expired or not; the stored status is never Passed while
\* quorum is unmet, and no step stores Passed from a state with quorum unmet;
\* before expiration an Open proposal with quorum unmet and is_rejected false
\* resolves to Open.
C11_QuorumRequiredToPass ==
    /\ [](QuorumUnmet(proposal) =>
             /\ \A b \in AllBlocks : ~is_passed(proposal, b)
             /\ proposal.status # "Passed")
    /\ []((QuorumUnmet(proposal) /\ ~Expired /\ proposal.status = "Open"
              /\ ~is_rejected(proposal, block))
             => current_status(proposal, block) = "Open")
    /\ [][(proposal.status # "Passed" /\ proposal'.status = "Passed")
             => ~QuorumUnmet(proposal)]_vars

\* an expired proposal whose yes weight clears the threshold of the opinions
\* cast, stored Rejected because the quorum was not met
C11_Witness ==
    /\ QuorumUnmet(proposal)
    /\ Expired
    /\ proposal.votes.yes > 0
    /\ proposal.votes.yes
          >= votes_needed(total(proposal.votes) - proposal.votes.abstain,
                          proposal.threshold.threshold)
    /\ proposal.status = "Rejected"

\* the quorum values a ThresholdQuorum proposal can carry
ValidQuorums == {q \in CreationFractions : q # Decimal_zero}

\* C12: quorum is not required for rejection.  Under ThresholdQuorum,
\* is_rejected gives the same result for every quorum value, for every tally
\* and clock reached (two proposals that differ only in quorum agree on
\* is_rejected).
C12_RejectIgnoresQuorum ==
    proposal.threshold.kind = "ThresholdQuorum" =>
        LET rejected == is_rejected(proposal, block)
        IN  \A q \in ValidQuorums :
               is_rejected([proposal EXCEPT !.threshold.quorum = q], block)
                   = rejected

\* a proposal stored Rejected before expiration, on its no weight alone,
\* with the quorum not met
C12_Witness ==
    /\ QuorumUnmet(proposal)
    /\ ~Expired
    /\ is_rejected(proposal, block)
    /\ proposal.status = "Rejected"

\* 50% <= threshold <= 100%
ThresholdInRange(threshold) ==
    /\ BigLeq(Decimal_percent(50), threshold)
    /\ BigLeq(threshold, Decimal_percent(100))

\* 0 < quorum <= 100%
QuorumInRange(quorum) ==
    /\ quorum # Decimal_zero
    /\ BigLeq(quorum, Decimal_percent(100))

\* C13: validate_threshold(threshold, quorum) returns Ok exactly when
\* 50% <= threshold <= 100% and 0 < quorum <= 100%; otherwise InvalidThreshold
\* when the threshold is outside [50%, 100%], whatever the quorum, else
\* ZeroQuorumThreshold when the quorum is zero, else
\* UnreachableQuorumThreshold when the quorum exceeds 100%.
C13_ValidateThreshold ==
    validation.fn = "validate_threshold" =>
        LET threshold == validation.threshold
            quorum == validation.quorum
            returned == validation.ret.kind
        IN  /\ (returned = "Ok")
                   <=> (ThresholdInRange(threshold) /\ QuorumInRange(quorum))
            /\ ~ThresholdInRange(threshold) => returned = "InvalidThreshold"
            /\ (ThresholdInRange(threshold) /\ quorum = Decimal_zero)
                   => returned = "ZeroQuorumThreshold"
            /\ (ThresholdInRange(threshold) /\ BigLess(Decimal_percent(100), quorum))
                   => returned = "UnreachableQuorumThreshold"

\* a threshold above 100% with a zero quorum is answered InvalidThreshold
C13_Witness ==
    /\ validation.fn = "validate_threshold"
    /\ BigLess(Decimal_percent(100), validation.threshold)
    /\ validation.quorum = Decimal_zero
    /\ validation.ret.kind = "InvalidThreshold"

\* the last call was of a validation function of a governance action
ActionValidated == validation.fn \in ActionValidations

AppIdsDiffer == validation.app_mapping_id_param # validation.app_id

\* C14: in every validation function of a governance action, when the app id
\* the caller asserts differs from the app id of the action payload, the call
\* returns DifferentAppID and has sent no query; a step that returns
\* DifferentAppID leaves the number of queries the external validator has
\* received unchanged.
C14_MismatchBeforeQuery ==
    /\ []((ActionValidated /\ AppIdsDiffer) =>
             /\ validation.ret = DifferentAppID
             /\ validation.sent = << >>)
    /\ [][validation'.ret = DifferentAppID => querier' = querier]_vars

\* add_extended_pair_vault returned DifferentAppID after the validator had
\* answered queries of earlier calls
C14_Witness ==
    /\ validation.fn = "add_extended_pair_vault"
    /\ AppIdsDiffer
    /\ validation.ret = DifferentAppID
    /\ querier > 0

\* C15: when the app ids match, a validation function sends exactly one
\* query (also when the answer is found = false: no retry), returns Ok iff
\* the response has found = true, and returns ProposalError with the
\* response's err string unchanged when found = false; each such call adds
\* one to the number of queries the validator has received.
C15_OneQueryErrPropagated ==
    /\ []((ActionValidated /\ ~AppIdsDiffer) =>
             /\ Len(validation.sent) = 1
             /\ validation.sent[1].app_id = validation.app_id
             /\ ~validation.response.failed =>
                   /\ (validation.ret = Ok) <=> validation.response.found
                   /\ ~validation.response.found =>
                         validation.ret = ProposalError(validation.response.err))
    /\ [][querier' # querier =>
             /\ querier' = querier + 1
             /\ validation'.fn \in ActionValidations
             /\ validation'.app_mapping_id_param = validation'.app_id]_vars

\* update_pairvault_stability returned the validator's reason in ProposalError
C15_Witness ==
    /\ validation.fn = "update_pairvault_stability"
    /\ ~AppIdsDiffer
    /\ ~validation.response.found
    /\ validation.response.err = "pair does not exist"
    /\ validation.ret = ProposalError("pair does not exist")
    /\ Len(validation.sent) = 1

\* C16: next_id returns strictly increasing identifiers that are never
\* reused.  The ids returned so far are strictly increasing in the order of
\* the calls, each call returns an id greater than every id returned before,
\* and the persisted proposal counter is the last id returned.
C16_NextIdIncreasing ==
    /\ [](\A i, j \in 1..Len(issued) : i < j => issued[i] < issued[j])
    /\ [](issued # << >> => store.proposal_count = Some(issued[Len(issued)]))
    /\ [][issued' # issued =>
             /\ Len(issued') = Len(issued) + 1
             /\ SubSeq(issued', 1, Len(issued)) = issued
             /\ \A i \in 1..Len(issued) : issued[i] < issued'[Len(issued')]
             /\ store'.proposal_count = Some(issued'[Len(issued')])]_vars

\* three proposals created under two apps, with three different ids
C16_Witness ==
    /\ Len(issued) = 3
    /\ Cardinality({issued[i] : i \in 1..Len(issued)}) = 3
    /\ store.proposals_by_app[1] # << >>
    /\ store.proposals_by_app[2] # << >>
    /\ store.proposal_count = Some(3)

\* the rejection condition of each policy, as the specification defines it:
\* the no weight alone, strictly above the opposing bar; D holds the yes, no
\* and veto weight cast once expired, and every weight that did not abstain
\* before
PolicyReject(p, blk) ==
    LET D == IF is_expired(p.expires, blk)
             THEN p.votes.yes + p.votes.no + p.votes.veto
             ELSE p.total_weight - p.votes.abstain
    IN  CASE p.threshold.kind = "AbsoluteCount" ->
                p.votes.no > p.total_weight - p.threshold.weight
          [] p.threshold.kind = "AbsolutePercentage" ->
                p.votes.no > votes_needed(p.total_weight - p.votes.abstain,
                                          Decimal_sub(Decimal_one, p.threshold.percentage))
          [] p.threshold.kind = "ThresholdQuorum" ->
                p.votes.no > votes_needed(D, Decimal_sub(Decimal_one, p.threshold.threshold))

\* C17: is_rejected compares the no weight, strictly, with the opposing bar:
\* total_weight - weight_needed under AbsoluteCount,
\* votes_needed(total_weight - abstain, 1 - percentage) under
\* AbsolutePercentage, votes_needed(D, 1 - threshold) under ThresholdQuorum
\* with D = votes.total() - abstain once expired and total_weight - abstain
\* before; veto weight is part of D and never of the no weight.
C17_RejectMatchesPolicy ==
    is_rejected(proposal, block) = PolicyReject(proposal, block)

\* an expired ThresholdQuorum proposal that is not rejected with its veto
\* weight in D, and whose no weight would clear the bar of yes + no alone
C17_Witness ==
    /\ proposal.threshold.kind = "ThresholdQuorum"
    /\ Expired
    /\ proposal.votes.veto > 0
    /\ ~is_rejected(proposal, block)
    /\ proposal.votes.no
          > votes_needed(proposal.votes.yes + proposal.votes.no,
                         Decimal_sub(Decimal_one, proposal.threshold.threshold))

\* the bucket of a tally a vote selects
Bucket(v, vote) ==
    CASE vote = "Yes"     -> v.yes
      [] vote = "No"      -> v.no
      [] vote = "Abstain" -> v.abstain
      [] vote = "Veto"    -> v.veto

\* C18: add_vote(vote, weight) adds weight to exactly the bucket the vote
\* selects and leaves the other three unchanged, so total() grows by exactly
\* weight: every step that changes the tally is the cast of one ballot, and
\* changes it by that ballot's vote and weight in this way.  No step
\* decreases a bucket.
C18_AddVoteFrame ==
    [][/\ \A vote \in VoteOptions :
             Bucket(proposal'.votes, vote) >= Bucket(proposal.votes, vote)
       /\ proposal'.votes # proposal.votes =>
             \E voter \in Voters :
                /\ ballots[voter] = NoBallot
                /\ ballots'[voter] # NoBallot
                /\ Bucket(proposal'.votes, ballots'[voter].vote)
                      = Bucket(proposal.votes, ballots'[voter].vote)
                           + ballots'[voter].weight
                /\ \A other \in VoteOptions \ {ballots'[voter].vote} :
                      Bucket(proposal'.votes, other) = Bucket(proposal.votes, other)
                /\ total(proposal'.votes)
                      = total(proposal.votes) + ballots'[voter].weight]_vars

\* two veto ballots accumulated in the veto bucket next to a yes ballot, the
\* no bucket still empty
C18_Witness ==
    /\ Cardinality({v \in Voters : ballots[v].vote = "Veto"}) = 2
    /\ proposal.votes.veto = 2
    /\ proposal.votes.yes = 1
    /\ proposal.votes.no = 0
    /\ proposal.votes.abstain = 0

\* the fields of a Proposal other than its status
FrameFields ==
    {"votes", "threshold", "total_weight", "expires", "start_height",
     "proposer", "deposit_refunded", "current_deposit"}

\* the step is a call of update_status: the only call that leaves the
\* ballots and the clock alone and returns nothing
UpdateStatusStep == ballots' = ballots /\ block' = block /\ ret' = NoCall

\* C19: update_status(now) changes only the stored status, setting it to
\* current_status(now): votes, threshold, total_weight, expires,
\* start_height, proposer and the deposit fields (deposit_refunded included)
\* are left unchanged, and a second update_status with the same clock
\* changes nothing.
C19_UpdateStatusFrame ==
    [][UpdateStatusStep =>
          /\ proposal'.status = current_status(proposal, block)
          /\ \A f \in FrameFields : proposal'[f] = proposal[f]
          /\ DOMAIN proposal' = DOMAIN proposal
          /\ update_status(proposal', block') = proposal']_vars

\* a proposal stored Passed by update_status, its no weight and its deposit
\* latch as they were
C19_Witness ==
    /\ proposal.status = "Passed"
    /\ proposal.votes.no > 0
    /\ proposal.votes.yes > 0
    /\ ~proposal.deposit_refunded
    /\ ret = NoCall

\* C20: no proposal is Open after expiration.  Of every proposal state
\* reached, at every clock at which its expiration holds, current_status is
\* Passed or Rejected; an update_status at or after expiration leaves a
\* terminal status stored.
C20_NoOpenAfterExpiration ==
    /\ [](\A b \in AllBlocks :
             is_expired(proposal.expires, b) =>
                current_status(proposal, b) \in {"Passed", "Rejected"})
    /\ [][(UpdateStatusStep /\ Expired) =>
             proposal'.status \in {"Passed", "Rejected"}]_vars

\* a proposal with ballots, stored Rejected after expiration, that neither
\* is_rejected nor is_passed decides: the timeout alone rejected it
C20_Witness ==
    /\ Expired
    /\ proposal.status = "Rejected"
    /\ total(proposal.votes) > 0
    /\ ~is_rejected(proposal, block)
    /\ ~is_rejected(proposal, StartBlock)
    /\ ~is_passed(proposal, block)
\* the calls that evaluate current_status
StatusCalls == {"update_status", "current_status"}

\* C21: evaluating is_passed, is_rejected or current_status never computes a
\* difference below zero (total_weight - abstain, votes.total() - abstain,
\* total_weight - weight_needed, 1 - fraction), in every state reached by
\* ballots that keep votes.total() <= total_weight, under every threshold
\* policy whose fractions validate_threshold accepts.
C21_NoNegativeDifference == ret.op \in StatusCalls => ret.negative = {}

\* the differences of C21 other than total_weight - weight_needed stay at or
\* above zero, and that one does whenever weight_needed <= total_weight
OnlyWeightNeededUnderflows ==
    LET negative == is_passed_underflows(proposal, block)
                        \cup is_rejected_underflows(proposal, block)
                        \cup current_status_underflows(proposal, block)
                        \cup (IF ret.op \in StatusCalls THEN ret.negative ELSE {})
    IN  /\ negative \subseteq {"total_weight - weight_needed"}
        /\ (proposal.threshold.kind = "AbsoluteCount"
               /\ proposal.threshold.weight <= proposal.total_weight)
              => negative = {}
        /\ total(proposal.votes) <= proposal.total_weight

\* a call of update_status computed total_weight - weight_needed below zero
\* after a ballot was cast
WeightNeededUnderflowed ==
    /\ ret.op = "update_status"
    /\ ret.negative = {"total_weight - weight_needed"}
    /\ total(proposal.votes) > 0

====
